---- MODULE Spec2Model ----
(***************************************************************************)
(* The execution pipeline of the DLV plugin (src/main.ts): executeDlv, its *)
(* registry of abort controllers, the timeout race, the temporary file and *)
(* onunload.  One step of the model is one turn of the event loop: the     *)
(* event that wakes a call (a finished fs operation, the exit of the       *)
(* solver, the timeout timer, an abort) together with the code that runs   *)
(* until the call suspends at its next await or returns.                   *)
(*                                                                         *)
(* A text (stdout, stderr, an error message) is the sequence of its lines; *)
(* the empty text is << >>.                                                *)
(***************************************************************************)
EXTENDS Integers, Sequences, FiniteSets, TLC

\* ------------------------------------------------------------- bounds
MaxRuns == 2

Runs == 1..MaxRuns
Langs == {"asp", "dlv"}

\* settings.executionTimeout: the default (0 = no timeout) and the README's
\* example of a custom timeout, in milliseconds.
DefaultTimeout == 0
CustomTimeout == 10000
TimeoutValues == {DefaultTimeout, CustomTimeout}

VARIABLES
    pc,                      \* where each executeDlv call stands
    lang,                    \* its lang argument
    signal,                  \* its signal argument: "none", "live", "aborted"
    aborted,                 \* controller.signal.aborted
    proc,                    \* the child of execAsync: "none", "running", "exited", "killed"
    timer,                   \* the setTimeout of the race: "none", "armed", "fired"
    tmpFile,                 \* the tmpFile path of the call
    raw,                     \* what execPromise resolved with
    result,                  \* what the call returned
    activeAbortControllers,  \* DlvPlugin.activeAbortControllers (a controller is its call)
    files,                   \* the temp files on disk: path and the call that wrote it
    now,                     \* the value Date.now() returned last
    dlvExists,               \* whether the file at getDlvPath() exists
    executionTimeout,        \* settings.executionTimeout
    unloaded,                \* onunload has run
    ending,                  \* history: the event that ended the call
    cancelledAt,             \* history: when the controller was aborted: "none",
                             \* "beforeExit" (the solver had not exited), "afterExit"
    unlinkAttempted,         \* history: fs.unlink(tmpFile) was called
    command,                 \* the command line given to execAsync
    showAllModels,           \* settings.showAllModels
    hideFacts,               \* settings.hideFacts
    showErrors,              \* settings.showErrors
    activeFile,              \* app.workspace.getActiveFile()
    docs,                    \* the content of the files of the vault
    job,                     \* the clicks on Run and Save buttons: where each stands
    panel,                   \* the output element each Run click renders into
    fn,                      \* a function applied on its own: its name, "none" before
    arg,                     \* its argument
    ret,                     \* what it returned
    running,                 \* the last toggleButtons(running) of a code-block widget
    abortController,         \* the widget's abortController field: a click or null
    click                    \* the clicks on the widget's Run and Save: where each stands

\* The state of the execution pipeline.
runVars == << pc, lang, signal, aborted, proc, timer, tmpFile, raw, result,
              activeAbortControllers, files, now, dlvExists, executionTimeout,
              unloaded, ending, cancelledAt, unlinkAttempted, command >>

\* The settings that no step of the model changes.
settingsVars == << showAllModels, hideFacts >>

\* The state of a function applied on its own.
pureVars == << fn, arg, ret >>

\* What no step of the execution pipeline touches.
\* The state of the result sink and of the handlers that feed it.
sinkVars == << showErrors, activeFile, docs, job, panel >>

\* The state of the buttons of one code-block widget.
triggerVars == << running, abortController, click >>

otherVars == << pureVars, settingsVars, sinkVars, triggerVars >>

vars == << runVars, otherVars >>

\* ------------------------------------------------------------- values
NoFile == [clock |-> -1, lang |-> ""]
NoResult == [pending |-> TRUE]
NoRaw == [code |-> -1, stdout |-> << >>, stderr |-> << >>]
NoCommand == << >>

\* What the solver can end with: its exit code and its raw output.
ProcOutcomes ==
    { [code |-> 0, stdout |-> <<"DLV 2.1.0", "{a,b}", "">>, stderr |-> << >>],
      [code |-> 0, stdout |-> << >>, stderr |-> <<"Generic warning: x">>],
      [code |-> 1, stdout |-> << >>, stderr |-> <<"line 3: syntax error">>] }

\* The errors a call can meet; all of them are instances of Error.
AccessError == [isError |-> TRUE, name |-> "Error",
                message |-> <<"ENOENT: no such file or directory, access">>]
MkdirError == [isError |-> TRUE, name |-> "Error",
               message |-> <<"EACCES: permission denied, mkdir">>]
WriteError == [isError |-> TRUE, name |-> "Error",
               message |-> <<"EACCES: permission denied, open">>]
SpawnError == [isError |-> TRUE, name |-> "Error", message |-> <<"spawn ENOENT">>]
AbortError == [isError |-> TRUE, name |-> "AbortError",
               message |-> <<"The operation was aborted">>]
TimeoutError == [isError |-> TRUE, name |-> "Error", message |-> <<"Execution timeout">>]
ExecError(out) == [isError |-> TRUE, name |-> "Error",
                   message |-> <<"Command failed: dlv">> \o out.stderr]

InFlight(r) == pc[r] \in {"access", "mkdir", "writeFile", "race", "unlink"}

\* ------------------------------------------------------------- sanitizer
IsBanner(line) == line \in {"DLV 2.1.0"}
IsGenericWarning(line) == line \in {"Generic warning: x"}

RECURSIVE DropFirstWarning(_)
DropFirstWarning(t) ==
    IF t = << >> THEN << >>
    ELSE IF IsGenericWarning(Head(t)) THEN Tail(t)
    ELSE <<Head(t)>> \o DropFirstWarning(Tail(t))

\* replace(/Generic warning: .*\n?/g, ""): every warning line is removed.
RECURSIVE DropWarnings(_)
DropWarnings(t) ==
    IF t = << >> THEN << >>
    ELSE IF IsGenericWarning(Head(t)) THEN DropWarnings(Tail(t))
    ELSE <<Head(t)>> \o DropWarnings(Tail(t))

RECURSIVE Trim(_)
Trim(t) ==
    IF t = << >> THEN << >>
    ELSE IF Head(t) = "" THEN Trim(Tail(t))
    ELSE IF t[Len(t)] = "" THEN Trim(SubSeq(t, 1, Len(t) - 1))
    ELSE t

cleanOutput(t) ==
    LET noBanner == IF Len(t) > 1 /\ IsBanner(Head(t)) THEN Tail(t) ELSE t
    IN  Trim(DropWarnings(noBanner))

\* A line of stderr after the per-line rewriting; "" when the line is dropped.
\* A rooted path is removed up to the next blank, a temp file name ending in
\* .asp becomes "Input", and of a line with "line N:" only that and what
\* follows it is kept.
CleanErrorLine(line) ==
    CASE line = "line 3: syntax error" -> "line 3: syntax error"
      [] line = "Command failed: dlv" -> ""
      [] line \in {"/tmp/dlv-temp-1.asp: line 3: syntax error",
                   "/tmp/dlv-temp-2.asp: line 3: syntax error"} -> "line 3: syntax error"
      [] line \in {"dlv-temp-1.asp: syntax error",
                   "dlv-temp-2.asp: syntax error"} -> "Input: syntax error"
      [] OTHER -> line

FormatErrorsKeep(t) == t

\* The join and the final replace: "line N:" becomes "Errore:" and "line N".
RECURSIVE FormatErrors(_)
FormatErrors(t) ==
    IF t = << >> THEN << >>
    ELSE IF Head(t) = "line 3: syntax error"
         THEN <<"Errore:", "line 3 syntax error">> \o FormatErrors(Tail(t))
    ELSE <<Head(t)>> \o FormatErrors(Tail(t))

\* replace(/[.:]+$/, '') on one line: its trailing dots and colons are removed.
StripLineEnd(line) ==
    CASE line = "Errore:" -> "Errore"
      [] line = "syntax error." -> "syntax error"
      [] line = "." -> ""
      [] OTHER -> line

\* replace(/[.:]+$/, '') on the joined text: $ is the end of the text, so
\* only the last line is concerned.
StripEnd(t) ==
    IF t = << >> THEN << >>
    ELSE SubSeq(t, 1, Len(t) - 1) \o <<StripLineEnd(t[Len(t)])>>

cleanErrors(t) ==
    LET mapped == [i \in 1..Len(t) |-> CleanErrorLine(t[i])]
        kept == SelectSeq(mapped, LAMBDA l : l # "")
    IN  Trim(StripEnd(FormatErrors(kept)))

\* ------------------------------------------------------------- catch, finally
CaughtExceptAbort(err) == err.name # "AbortError"

\* The catch clause of executeDlv catches whatever the try block throws.
Caught(err) == TRUE

AfterCatchRetry(err) == "writeFile"

\* After the catch clause the call returns.
AfterCatch(err) == IF Caught(err) THEN "done" ELSE "rejected"

ErrorMessageAlwaysAborted(isAborted, err) ==
    IF err.isError THEN <<"Execution aborted">> ELSE <<"Unknown error">>

ErrorMessageUnderlying(isAborted, err) ==
    IF err.isError THEN err.message ELSE <<"Unknown error">>

ErrorMessage(isAborted, err) ==
    IF err.isError
    THEN IF isAborted THEN <<"Execution aborted">> ELSE err.message
    ELSE <<"Unknown error">>

CatchResult(isAborted, err) ==
    IF Caught(err)
    THEN [stdout |-> << >>, stderr |-> ErrorMessage(isAborted, err)]
    ELSE NoResult

DeregisterNothing(set, r) == set

\* finally: this.activeAbortControllers.delete(controller)
Deregister(set, r) == set \ {r}

\* The finally clauses of the calls in W, one after the other.
RECURSIVE DeregisterAll(_, _)
DeregisterAll(set, W) ==
    IF W = {} THEN set
    ELSE LET r == CHOOSE x \in W : TRUE
         IN  DeregisterAll(Deregister(set, r), W \ {r})

\* ------------------------------------------------------------- initial state
\* No function is being applied on its own.
PureIdle == fn = "none" /\ arg = << >> /\ ret = << >>

\* The execution pipeline after construction of the plugin.
RunInit ==
    /\ pc = [r \in Runs |-> "idle"]
    /\ lang = [r \in Runs |-> ""]
    /\ signal = [r \in Runs |-> "none"]
    /\ aborted = [r \in Runs |-> FALSE]
    /\ proc = [r \in Runs |-> "none"]
    /\ timer = [r \in Runs |-> "none"]
    /\ tmpFile = [r \in Runs |-> NoFile]
    /\ raw = [r \in Runs |-> NoRaw]
    /\ result = [r \in Runs |-> NoResult]
    /\ activeAbortControllers = {}
    /\ files = {}
    /\ now = 0
    /\ dlvExists \in BOOLEAN
    /\ executionTimeout \in TimeoutValues
    /\ unloaded = FALSE
    /\ ending = [r \in Runs |-> "none"]
    /\ cancelledAt = [r \in Runs |-> "none"]
    /\ unlinkAttempted = [r \in Runs |-> FALSE]
    /\ command = [r \in Runs |-> NoCommand]

\* DEFAULT_SETTINGS
DefaultFlags == showAllModels = FALSE /\ hideFacts = FALSE

MaxJobs == 2

Jobs == 1..MaxJobs
Files == {"a.asp", "b.asp"}
\* getActiveFile() returns null.
NoActive == "null"
NoJob == [pc |-> "idle", kind |-> "none", origin |-> NoActive,
          result |-> NoResult, target |-> NoActive, data |-> << >>]
NoPanel == [rendered |-> FALSE]
\* What a file holds before anything is appended to it.
InitialDoc == <<"a :- b.">>

\* The result sink before any click.
SinkInit ==
    /\ docs = [f \in Files |-> InitialDoc]
    /\ job = [j \in Jobs |-> NoJob]
    /\ panel = [j \in Jobs |-> NoPanel]

\* No button is ever clicked: one file is open, showErrors has its default.
SinkIdle == SinkInit /\ showErrors = FALSE /\ activeFile = "a.asp"

MaxClicks == 3

Clicks == 1..MaxClicks
\* null, as a click number no click has
NoController == 0
NoClick == [kind |-> "none", state |-> "idle", aborted |-> FALSE]

\* The widget after toDOM: Run and Save enabled, Stop hidden, no controller.
TriggerIdle ==
    /\ running = FALSE
    /\ abortController = NoController
    /\ click = [k \in Clicks |-> NoClick]

Init == RunInit /\ PureIdle /\ DefaultFlags /\ SinkIdle /\ TriggerIdle

\* ------------------------------------------------------------- executeDlv
\* The call up to its first await: the controller is created and registered,
\* the external signal (if any) is wired to it, fs.access is started.  An
\* already aborted signal fires no abort event, so its onabort never runs.
\* Calls are numbered in the order they are made.  The session ends with
\* onunload: calls made after it are not modelled.
Call(r, l, s) ==
    /\ ~unloaded
    /\ pc[r] = "idle"
    /\ \A q \in Runs : q < r => pc[q] # "idle"
    /\ pc' = [pc EXCEPT ![r] = "access"]
    /\ lang' = [lang EXCEPT ![r] = l]
    /\ signal' = [signal EXCEPT ![r] = s]
    /\ activeAbortControllers' = activeAbortControllers \cup {r}
    /\ UNCHANGED << aborted, proc, timer, tmpFile, raw, result, files, now,
                    dlvExists, executionTimeout, unloaded, ending, cancelledAt,
                    unlinkAttempted >>
    /\ UNCHANGED << command, otherVars >>

\* The catch and finally clauses, for the call r that threw err.
Catch(r, err, how) ==
    /\ pc' = [pc EXCEPT ![r] = AfterCatch(err)]
    /\ result' = [result EXCEPT ![r] = CatchResult(aborted[r], err)]
    /\ activeAbortControllers' = Deregister(activeAbortControllers, r)
    /\ ending' = [ending EXCEPT ![r] = how]

AccessAlwaysOk == TRUE

\* fs.access(dlvPath) resolves when the file exists and rejects otherwise.
AccessOk == dlvExists

AccessDone(r) ==
    /\ pc[r] = "access"
    /\ IF AccessOk
       THEN /\ pc' = [pc EXCEPT ![r] = "mkdir"]
            /\ UNCHANGED << result, activeAbortControllers, ending >>
       ELSE Catch(r, AccessError, "missing")
    /\ UNCHANGED << lang, signal, aborted, proc, timer, tmpFile, raw, files, now,
                    dlvExists, executionTimeout, unloaded, cancelledAt,
                    unlinkAttempted >>
    /\ UNCHANGED << command, otherVars >>

\* path.join(tmpDir, `dlv-temp-${Date.now()}.${lang}`)
TmpFilePath(clock, l) == [clock |-> clock, lang |-> l]

\* fs.mkdir(tmpDir) is done; on success the path is computed from
\* Date.now(), which returns t, and fs.writeFile is started.  The clock has
\* millisecond resolution: t is the value of the previous reading (the same
\* millisecond) or a later one.
MkdirDone(r, ok, t) ==
    /\ pc[r] = "mkdir"
    /\ t \in {now, now + 1}
    /\ IF ok
       THEN /\ pc' = [pc EXCEPT ![r] = "writeFile"]
            /\ tmpFile' = [tmpFile EXCEPT ![r] = TmpFilePath(t, lang[r])]
            /\ now' = t
            /\ UNCHANGED << result, activeAbortControllers, ending >>
       ELSE /\ t = now
            /\ Catch(r, MkdirError, "mkdirerror")
            /\ UNCHANGED << tmpFile, now >>
    /\ UNCHANGED << lang, signal, aborted, proc, timer, raw, files,
                    dlvExists, executionTimeout, unloaded, cancelledAt,
                    unlinkAttempted >>
    /\ UNCHANGED << command, otherVars >>

\* fs.writeFile(path, content of call r): the file now holds r's content.
WriteFile(fs, path, r) ==
    {f \in fs : f.path # path} \cup {[path |-> path, content |-> r]}

\* fs.unlink(path)
Unlink(fs, path) == {f \in fs : f.path # path}

\* getDlvPath(): the path of the solver.
DlvPath == "dlv"

BuildArgsSwapped(path) ==
    <<path>> \o (IF hideFacts THEN <<"--no-facts">> ELSE << >>)
             \o (IF showAllModels THEN <<"-n", "0">> ELSE << >>)

\* const args = [tmpFile], followed by what the two settings push.
BuildArgs(path) ==
    <<path>> \o (IF showAllModels THEN <<"-n", "0">> ELSE << >>)
             \o (IF hideFacts THEN <<"--no-facts">> ELSE << >>)

\* The command line: the quoted path of the solver, then the quoted arguments.
CommandLine(path) == <<DlvPath>> \o BuildArgs(path)

TimerAlwaysArmed == TRUE

TimerNeverArmed == FALSE

\* The race is entered only with a positive timeout.
TimerArmed == executionTimeout > 0

\* fs.writeFile is done.  On success the command is built, execAsync spawns
\* the child with controller.signal and, with a positive timeout, the timer
\* is started.  A child spawned with an already aborted signal is killed on
\* the next tick, and execPromise rejects with an AbortError.
WriteDone(r, ok, spawnOk) ==
    /\ pc[r] = "writeFile"
    /\ IF ~ok
       THEN /\ Catch(r, WriteError, "writeerror")
            /\ UNCHANGED << files, proc, timer, command >>
       ELSE /\ files' = WriteFile(files, tmpFile[r], r)
            /\ command' = [command EXCEPT ![r] = CommandLine(tmpFile[r])]
            /\ timer' = [timer EXCEPT ![r] = IF TimerArmed THEN "armed" ELSE "none"]
            /\ IF ~spawnOk
               THEN /\ Catch(r, SpawnError, "spawnerror")
                    /\ UNCHANGED proc
               ELSE IF aborted[r]
               THEN /\ Catch(r, AbortError, "abortedAtSpawn")
                    /\ proc' = [proc EXCEPT ![r] = "killed"]
               ELSE /\ pc' = [pc EXCEPT ![r] = "race"]
                    /\ proc' = [proc EXCEPT ![r] = "running"]
                    /\ UNCHANGED << result, activeAbortControllers, ending >>
    /\ UNCHANGED << lang, signal, aborted, tmpFile, raw, now, dlvExists,
                    executionTimeout, unloaded, cancelledAt, unlinkAttempted >>
    /\ UNCHANGED otherVars

\* The child exits by itself.  A call still awaiting it goes on: with exit
\* code 0 to fs.unlink(tmpFile), otherwise to the catch clause.
ProcExit(r, out) ==
    /\ proc[r] = "running"
    /\ proc' = [proc EXCEPT ![r] = "exited"]
    /\ IF pc[r] # "race"
       THEN UNCHANGED << pc, raw, result, activeAbortControllers, ending,
                         unlinkAttempted >>
       ELSE IF out.code = 0
       THEN /\ pc' = [pc EXCEPT ![r] = "unlink"]
            /\ raw' = [raw EXCEPT ![r] = out]
            /\ unlinkAttempted' = [unlinkAttempted EXCEPT ![r] = TRUE]
            /\ UNCHANGED << result, activeAbortControllers, ending >>
       ELSE /\ Catch(r, ExecError(out), "failure")
            /\ UNCHANGED << raw, unlinkAttempted >>
    /\ UNCHANGED << lang, signal, aborted, timer, tmpFile, files, now, dlvExists,
                    executionTimeout, unloaded, cancelledAt >>
    /\ UNCHANGED << command, otherVars >>

\* The timeout timer fires: timeoutPromise rejects.  It decides the race only
\* when the call is still awaiting it.
TimerFire(r) ==
    /\ timer[r] = "armed"
    /\ timer' = [timer EXCEPT ![r] = "fired"]
    /\ IF pc[r] = "race"
       THEN Catch(r, TimeoutError, "timeout")
       ELSE UNCHANGED << pc, result, activeAbortControllers, ending >>
    /\ UNCHANGED << lang, signal, aborted, proc, tmpFile, raw, files, now,
                    dlvExists, executionTimeout, unloaded, cancelledAt,
                    unlinkAttempted >>
    /\ UNCHANGED << command, otherVars >>

\* fs.unlink(tmpFile).catch(() => {}) is done: the cleaned result is returned.
UnlinkDone(r) ==
    /\ pc[r] = "unlink"
    /\ files' = Unlink(files, tmpFile[r])
    /\ pc' = [pc EXCEPT ![r] = "done"]
    /\ result' = [result EXCEPT ![r] = [stdout |-> cleanOutput(raw[r].stdout),
                                        stderr |-> cleanErrors(raw[r].stderr)]]
    /\ activeAbortControllers' = Deregister(activeAbortControllers, r)
    /\ ending' = [ending EXCEPT ![r] = "success"]
    /\ raw' = [raw EXCEPT ![r] = NoRaw]
    /\ UNCHANGED << lang, signal, aborted, proc, timer, tmpFile, now,
                    dlvExists, executionTimeout, unloaded, cancelledAt,
                    unlinkAttempted >>
    /\ UNCHANGED << command, otherVars >>

\* ------------------------------------------------------------- cancellation
KilledNone(S) == {}

\* The children that controller.abort() of the calls in S kills: execAsync
\* was given controller.signal, so aborting kills a running child.
Killed(S) == {r \in S : ~aborted[r] /\ proc[r] = "running"}

\* controller.abort() for every call in S, and what follows in the same turn:
\* a killed child makes execPromise reject with an AbortError, and a call
\* awaiting the race goes through its catch and finally clauses.
Abort(S) ==
    LET K == Killed(S)
        W == {r \in K : pc[r] = "race"}
    IN  /\ aborted' = [r \in Runs |-> aborted[r] \/ r \in S]
        /\ cancelledAt' = [r \in Runs |->
               IF r \in S /\ cancelledAt[r] = "none"
               THEN (IF proc[r] = "exited" THEN "afterExit" ELSE "beforeExit")
               ELSE cancelledAt[r]]
        /\ proc' = [r \in Runs |-> IF r \in K THEN "killed" ELSE proc[r]]
        /\ pc' = [r \in Runs |-> IF r \in W THEN AfterCatch(AbortError) ELSE pc[r]]
        /\ result' = [r \in Runs |->
               IF r \in W THEN CatchResult(TRUE, AbortError) ELSE result[r]]
        /\ ending' = [r \in Runs |-> IF r \in W THEN "killed" ELSE ending[r]]
        /\ activeAbortControllers' = DeregisterAll(activeAbortControllers, W)

OnAbortTargetsAll(r) == activeAbortControllers

\* The controllers that the onabort handler of the signal of call r aborts:
\* the handler closes over the controller of that call.
OnAbortTargets(r) == {r}

\* The caller aborts the signal it passed in: signal.onabort aborts the
\* controller of the call.
SignalAbort(r) ==
    /\ InFlight(r)
    /\ signal[r] = "live"
    /\ signal' = [signal EXCEPT ![r] = "aborted"]
    /\ Abort(OnAbortTargets(r))
    /\ UNCHANGED << lang, timer, tmpFile, raw, files, now, dlvExists,
                    executionTimeout, unloaded, unlinkAttempted >>
    /\ UNCHANGED << command, otherVars >>

\* onunload: every registered controller is aborted.
Unload ==
    /\ ~unloaded
    /\ unloaded' = TRUE
    /\ Abort(activeAbortControllers)
    /\ UNCHANGED << lang, signal, timer, tmpFile, raw, files, now, dlvExists,
                    executionTimeout, unlinkAttempted >>
    /\ UNCHANGED << command, otherVars >>

Next ==
    \/ \E r \in Runs, l \in Langs, s \in {"none", "live", "aborted"} : Call(r, l, s)
    \/ \E r \in Runs : AccessDone(r)
    \/ \E r \in Runs, ok \in BOOLEAN, t \in 0..MaxRuns : MkdirDone(r, ok, t)
    \/ \E r \in Runs, ok \in BOOLEAN, spawnOk \in BOOLEAN : WriteDone(r, ok, spawnOk)
    \/ \E r \in Runs, out \in ProcOutcomes : ProcExit(r, out)
    \/ \E r \in Runs : TimerFire(r)
    \/ \E r \in Runs : UnlinkDone(r)
    \/ \E r \in Runs : SignalAbort(r)
    \/ Unload

Spec == Init /\ [][Next]_vars

\* ------------------------------------------------------------- properties
Ended(r) == pc[r] = "done"
EmptyText == << >>
AbortedResult == [stdout |-> EmptyText, stderr |-> <<"Execution aborted">>]
TimeoutResult == [stdout |-> EmptyText, stderr |-> <<"Execution timeout">>]
\* A result record that carries an aborted mark set to true.
MarkedAborted(res) == "aborted" \in DOMAIN res /\ res.aborted = TRUE
\* The results of a solver that exited with code 0.
SuccessResults ==
    { [stdout |-> cleanOutput(o.stdout), stderr |-> cleanErrors(o.stderr)] :
        o \in {x \in ProcOutcomes : x.code = 0} }

\* C1: executeDlv never throws and never rejects: a call never ends by an
\* exception, a call that has ended has returned a record of exactly the
\* fields stdout and stderr, and when it ended by a failure (executable
\* missing, mkdir or write failure, spawn error, non-zero exit, timeout,
\* cancellation) stdout is empty and stderr carries the failure.
C1_NeverThrows ==
    \A r \in Runs :
        /\ pc[r] # "rejected"
        /\ Ended(r) =>
              /\ DOMAIN result[r] = {"stdout", "stderr"}
              /\ ending[r] # "success" =>
                    result[r].stdout = EmptyText /\ result[r].stderr # EmptyText

\* Two calls have ended by failures: one killed by a cancellation, one by a
\* timeout, a non-zero exit, a spawn error or a write failure.
C1_Witness ==
    \E r, q \in Runs :
        /\ Ended(r) /\ ending[r] = "killed"
        /\ Ended(q) /\ ending[q] \in {"timeout", "failure", "spawnerror", "writeerror"}

\* C2: once onunload has run, every registered controller is aborted and no
\* solver process spawned by any executeDlv call is still running.
C2_UnloadLeavesNoProcess ==
    unloaded =>
        /\ \A r \in activeAbortControllers : aborted[r]
        /\ \A r \in Runs : proc[r] # "running"

\* C3: at every moment activeAbortControllers holds exactly the controllers
\* of the calls that have started and not yet returned; it is empty when no
\* call is in flight.
C3_RegistryIsInFlight ==
    activeAbortControllers = {r \in Runs : InFlight(r)}

\* Both calls have been registered and released, on two different paths.
C3_Witness ==
    \E r, q \in Runs :
        /\ Ended(r) /\ ending[r] = "timeout"
        /\ Ended(q) /\ ending[q] = "killed"
        /\ activeAbortControllers = {}

C5_TimeoutCancelsProcess ==
    \A r \in Runs :
        (Ended(r) /\ ending[r] = "timeout") => (aborted[r] /\ proc[r] # "running")

C8_TempFileCleaned ==
    \A r \in Runs :
        (Ended(r) /\ ending[r] \in {"success", "failure", "timeout", "killed",
                                    "abortedAtSpawn", "spawnerror"}) =>
            /\ unlinkAttempted[r]
            /\ \A f \in files : f.path # tmpFile[r]

\* C9: two calls in flight at the same time never have the same temporary
\* file path.
C9_DistinctTempFiles ==
    \A r, q \in Runs :
        (r # q /\ InFlight(r) /\ InFlight(q) /\ tmpFile[r] # NoFile /\ tmpFile[q] # NoFile)
            => tmpFile[r] # tmpFile[q]

C11_ReturnedTextSanitized ==
    \A r \in Runs :
        (Ended(r) /\ ending[r] \in {"success", "failure", "spawnerror"}) =>
            \A i \in 1..Len(result[r].stderr) :
                result[r].stderr[i] # "Command failed: dlv"

\* ------------------------------------------------------------- the sanitizer on its own
MaxLines == 3

\* The lines the texts given to the sanitizer are made of.
Lines ==
    { "", "DLV 2.1.0", "Generic warning: x", "{a,b}", "line 3: syntax error",
      "Command failed: dlv", "syntax error.", ".", "Answer: 1",
      "/tmp/dlv-temp-1.asp: line 3: syntax error",
      "/tmp/dlv-temp-2.asp: line 3: syntax error",
      "dlv-temp-1.asp: syntax error", "dlv-temp-2.asp: syntax error",
      "dlv-temp-1.dlv: syntax error", "dlv-temp-2.dlv: syntax error" }

\* The stdout of the solver for the program "a :- b. b.".
ScenarioStdout == <<"DLV 2.1.0", "Answer: 1", "{a,b}", "">>

\* The texts of at most MaxLines lines, and the scenario.
Texts == UNION { [1..n -> Lines] : n \in 0..MaxLines } \cup {ScenarioStdout}

InitSanitizer ==
    /\ RunInit /\ dlvExists /\ executionTimeout = DefaultTimeout
    /\ DefaultFlags /\ SinkIdle /\ TriggerIdle
    /\ fn = "none"
    /\ arg \in Texts
    /\ ret = << >>

\* this.cleanOutput(arg)
ApplyCleanOutput ==
    /\ fn = "none"
    /\ fn' = "cleanOutput"
    /\ ret' = cleanOutput(arg)
    /\ UNCHANGED << arg, runVars, settingsVars, sinkVars, triggerVars >>

\* this.cleanErrors(arg)
ApplyCleanErrors ==
    /\ fn = "none"
    /\ fn' = "cleanErrors"
    /\ ret' = cleanErrors(arg)
    /\ UNCHANGED << arg, runVars, settingsVars, sinkVars, triggerVars >>

\* The same stderr text in another run: the temp file has another timestamp.
OtherRunLine(line) ==
    CASE line = "/tmp/dlv-temp-1.asp: line 3: syntax error"
             -> "/tmp/dlv-temp-2.asp: line 3: syntax error"
      [] line = "dlv-temp-1.asp: syntax error" -> "dlv-temp-2.asp: syntax error"
      [] line = "dlv-temp-1.dlv: syntax error" -> "dlv-temp-2.dlv: syntax error"
      [] OTHER -> line

OtherRun(t) == [i \in 1..Len(t) |-> OtherRunLine(t[i])]

\* this.cleanErrors on the stderr arg of one run and on the stderr of another
\* run of the same program.
ApplyCleanErrorsTwoRuns ==
    /\ fn = "none"
    /\ fn' = "cleanErrorsTwoRuns"
    /\ ret' = [first |-> cleanErrors(arg), second |-> cleanErrors(OtherRun(arg))]
    /\ UNCHANGED << arg, runVars, settingsVars, sinkVars, triggerVars >>

NextSanitizer == ApplyCleanOutput \/ ApplyCleanErrors \/ ApplyCleanErrorsTwoRuns

SpecSanitizer == InitSanitizer /\ [][NextSanitizer]_vars

\* C12: sanitization is idempotent: cleaning a text that cleanOutput returned
\* gives it back unchanged, and so does cleanErrors on a text it returned.
C12_Idempotent ==
    /\ fn = "cleanOutput" => cleanOutput(ret) = ret
    /\ fn = "cleanErrors" => cleanErrors(ret) = ret

\* ------------------------------------------------------------- the invocation
\* The execution pipeline with the solver present, a timeout and any
\* setting of the two flags.
InitInvoke ==
    /\ RunInit /\ dlvExists /\ executionTimeout = CustomTimeout
    /\ PureIdle /\ SinkIdle /\ TriggerIdle
    /\ showAllModels \in BOOLEAN
    /\ hideFacts \in BOOLEAN

SpecInvoke == InitInvoke /\ [][Next]_vars

\* C13: the invocation is the solver and the temp file path, then "-n" "0"
\* exactly when showAllModels is set, then "--no-facts" exactly when
\* hideFacts is set, in this order for the four combinations; the extension
\* of the temp file is the language tag of the call.
C13_Invocation ==
    \A r \in Runs :
        command[r] # NoCommand =>
            LET c == command[r]
                p == tmpFile[r]
            IN  /\ (~showAllModels /\ ~hideFacts) => c = <<DlvPath, p>>
                /\ (showAllModels /\ ~hideFacts) => c = <<DlvPath, p, "-n", "0">>
                /\ (~showAllModels /\ hideFacts) => c = <<DlvPath, p, "--no-facts">>
                /\ (showAllModels /\ hideFacts) =>
                       c = <<DlvPath, p, "-n", "0", "--no-facts">>
                /\ p.lang = lang[r]

\* With both flags set, the solver was spawned with a command line of five
\* words and has exited.
C13_Witness ==
    \E r \in Runs :
        /\ showAllModels /\ hideFacts
        /\ proc[r] = "exited"
        /\ Len(command[r]) = 5
        /\ tmpFile[r].lang = "dlv"

\* C14: an aborted external signal, whether it was aborted while the call
\* was in flight or already at call time, means that the controller of the
\* call is aborted and that its solver is not running.
C14_ExternalAbortCancels ==
    \A r \in Runs :
        (pc[r] # "idle" /\ signal[r] = "aborted") =>
            aborted[r] /\ proc[r] # "running"

\* C15: a step that aborts the external signal of one call in flight aborts
\* the controller of that call and leaves its solver not running; of every
\* other call it changes neither the controller, nor the solver, nor the
\* position, nor the result, nor the registry entry.
C15_NoInterference ==
    [][\A r \in Runs :
          (signal[r] = "live" /\ signal'[r] = "aborted") =>
              /\ aborted'[r] /\ proc'[r] # "running"
              /\ \A q \in Runs \ {r} :
                    /\ aborted'[q] = aborted[q]
                    /\ proc'[q] = proc[q]
                    /\ pc'[q] = pc[q]
                    /\ result'[q] = result[q]
                    /\ (q \in activeAbortControllers') = (q \in activeAbortControllers)
      ]_vars

\* The later of two calls was killed through its external signal while the
\* earlier one is still awaiting its running solver, unaborted and registered.
C15_Witness ==
    \E r, q \in Runs :
        /\ q < r
        /\ signal[r] = "aborted" /\ ending[r] = "killed"
        /\ pc[q] = "race" /\ proc[q] = "running" /\ ~aborted[q]
        /\ q \in activeAbortControllers

\* ------------------------------------------------------------- result sink
\* A solver that prints answer sets and a warning.
BothOutcome ==
    [code |-> 0, stdout |-> <<"DLV 2.1.0", "{a,b}", "">>,
     stderr |-> <<"Generic warning: x">>]

\* The results executeDlv hands to the sink: of a solver that exited with
\* code 0, of one that failed, of a timeout and of a cancellation.
SinkResults ==
    { [stdout |-> cleanOutput(o.stdout), stderr |-> cleanErrors(o.stderr)] :
        o \in {x \in ProcOutcomes \cup {BothOutcome} : x.code = 0} }
    \cup { CatchResult(FALSE, ExecError(o)) : o \in {x \in ProcOutcomes : x.code # 0} }
    \cup { CatchResult(FALSE, TimeoutError), CatchResult(TRUE, AbortError) }

\* result.stdout.trim().length > 0
HasOutput(res) == Trim(res.stdout) # << >>
\* result.stderr.trim().length > 0
HasErrors(res) == Trim(res.stderr) # << >>

ShowsErrorsOnlyIfSet(res) == showErrors /\ HasErrors(res)

\* The condition of updateOutputUI for the error block.
ShowsErrors(res) == (showErrors \/ ~HasOutput(res)) /\ HasErrors(res)

\* The lines of the error block: one per line of the cleaned stderr; the
\* split of an empty text is one empty line.
ErrorBlock(res) ==
    LET c == cleanErrors(res.stderr)
    IN  IF c = << >> THEN <<"">> ELSE c

\* What updateOutputUI leaves in the output element.
updateOutputUI(res) ==
    [rendered |-> TRUE,
     stdout |-> res.stdout,
     hasError |-> ShowsErrors(res),
     error |-> IF ShowsErrors(res) THEN ErrorBlock(res) ELSE << >>]

SavesErrorsOnlyIfSet(res) == showErrors /\ res.stderr # << >>

\* The condition of saveExecutionResult for the error section.
SavesErrors(res) == (showErrors \/ ~HasOutput(res)) /\ res.stderr # << >>

\* new Date().toLocaleString()
Timestamp == "3/11/2026, 10:00:00"

\* line => `% ${line}` on every line
Commented(t) == [i \in 1..Len(t) |-> "% " \o t[i]]

\* The comment block of saveExecutionResult: content.trim()
FormatBlock(res) ==
    Trim( <<"% " \o Timestamp>>
          \o (IF HasOutput(res) THEN <<"% AnswerSet">> \o Commented(res.stdout)
              ELSE <<"">>)
          \o (IF SavesErrors(res) THEN <<"% Errore">> \o Commented(res.stderr)
              ELSE << >>) )

VaultModify(doc, block) == <<"", "">> \o block

\* vault.append(file, `\n\n${block}`): the text is added at the end of the
\* file, after an empty line.
VaultAppend(doc, block) == doc \o <<"">> \o block

\* A click on a button of the active file: the Run button of a fragment
\* ("run"), its Save button ("save") or the Run button of the header
\* ("header").  The header handler first reads the file, the others call
\* executeDlv at once.  Clicks are numbered in the order they are made.
Click(j, k) ==
    /\ job[j].pc = "idle"
    /\ \A i \in Jobs : i < j => job[i].pc # "idle"
    /\ activeFile # NoActive
    /\ job' = [job EXCEPT ![j] = [NoJob EXCEPT !.pc = IF k = "header" THEN "read" ELSE "exec",
                                               !.kind = k,
                                               !.origin = activeFile]]
    /\ UNCHANGED << showErrors, activeFile, docs, panel >>
    /\ UNCHANGED << runVars, pureVars, settingsVars, triggerVars >>

\* vault.read(file) of the header handler is done: executeDlv is called.
ReadDone(j) ==
    /\ job[j].pc = "read"
    /\ job' = [job EXCEPT ![j].pc = "exec"]
    /\ UNCHANGED << showErrors, activeFile, docs, panel >>
    /\ UNCHANGED << runVars, pureVars, settingsVars, triggerVars >>

\* executeDlv returns res to the handler.  A Run click renders it; a Save or
\* header click calls saveExecutionResult, which formats the block and, when
\* a file is active, starts vault.append on the file that is active now.
ExecReturns(j, res) ==
    /\ job[j].pc = "exec"
    /\ IF job[j].kind = "run"
       THEN /\ panel' = [panel EXCEPT ![j] = updateOutputUI(res)]
            /\ job' = [job EXCEPT ![j].pc = "done", ![j].result = res]
       ELSE /\ job' = [job EXCEPT ![j].pc = IF activeFile = NoActive THEN "done" ELSE "append",
                                  ![j].result = res,
                                  ![j].target = activeFile,
                                  ![j].data = FormatBlock(res)]
            /\ UNCHANGED panel
    /\ UNCHANGED << showErrors, activeFile, docs >>
    /\ UNCHANGED << runVars, pureVars, settingsVars, triggerVars >>

\* vault.append of a save is done.
AppendDone(j) ==
    /\ job[j].pc = "append"
    /\ docs' = [docs EXCEPT ![job[j].target] = VaultAppend(@, job[j].data)]
    /\ job' = [job EXCEPT ![j].pc = "done"]
    /\ UNCHANGED << showErrors, activeFile, panel >>
    /\ UNCHANGED << runVars, pureVars, settingsVars, triggerVars >>

\* The user makes another file active, or closes the last open file.
SwitchFile(f) ==
    /\ f # activeFile
    /\ activeFile' = f
    /\ UNCHANGED << showErrors, docs, job, panel >>
    /\ UNCHANGED << runVars, pureVars, settingsVars, triggerVars >>

InitSink ==
    /\ RunInit /\ dlvExists /\ executionTimeout = DefaultTimeout
    /\ DefaultFlags /\ PureIdle /\ TriggerIdle
    /\ SinkInit
    /\ showErrors \in BOOLEAN
    /\ activeFile \in Files

NextSink ==
    \/ \E j \in Jobs, k \in {"run", "save", "header"} : Click(j, k)
    \/ \E j \in Jobs : ReadDone(j)
    \/ \E j \in Jobs, res \in SinkResults : ExecReturns(j, res)
    \/ \E j \in Jobs : AppendDone(j)
    \/ \E f \in Files \cup {NoActive} : SwitchFile(f)

SpecSink == InitSink /\ [][NextSink]_vars

\* C16: the block of a Save click or of a header Run click is appended to the
\* document the click was made on, also when another file was made active
\* while the run was in flight.
C16_AppendsToOrigin ==
    \A j \in Jobs :
        (job[j].kind \in {"save", "header"} /\ job[j].pc \in {"append", "done"}
           /\ job[j].target # NoActive)
            => job[j].target = job[j].origin

\* a is a prefix of b.
IsPrefix(a, b) == Len(a) <= Len(b) /\ SubSeq(b, 1, Len(a)) = a

\* C17: saving only adds: in every step, what a document held before the
\* step is a prefix of what it holds after it.
C17_AdditiveOnly ==
    [][\A f \in Files : IsPrefix(docs[f], docs'[f])]_vars

\* Two saves have appended their blocks to the same file, which still begins
\* with what it held before.
C17_Witness ==
    \E f \in Files :
        /\ \A j \in Jobs : job[j].pc = "done" /\ job[j].kind # "run" /\ job[j].target = f
        /\ Len(docs[f]) > Len(InitialDoc) + 4
        /\ IsPrefix(InitialDoc, docs[f])

\* C18: what a Run click renders always holds the stdout of the result, and
\* it holds an error block exactly when stderr is not empty and showErrors
\* is set or stdout is empty; with showErrors off and a stdout that is not
\* empty there is no error block.
C18_TransientDisplay ==
    \A j \in Jobs :
        panel[j].rendered =>
            LET res == job[j].result
            IN  /\ panel[j].stdout = res.stdout
                /\ panel[j].hasError =
                      (res.stderr # EmptyText /\ (showErrors \/ res.stdout = EmptyText))
                /\ (~showErrors /\ res.stdout # EmptyText) => ~panel[j].hasError

\* With showErrors off, an aborted result was rendered with its error block
\* and a result with both texts was rendered without one.
C18_Witness ==
    \E j, i \in Jobs :
        /\ ~showErrors
        /\ panel[j].rendered /\ job[j].result = AbortedResult /\ panel[j].hasError
        /\ panel[j].error = <<"Execution aborted">>
        /\ panel[i].rendered /\ ~panel[i].hasError
        /\ job[i].result.stdout # EmptyText /\ job[i].result.stderr # EmptyText

\* The text t has the line l.
HasLine(t, l) == \E i \in 1..Len(t) : t[i] = l

\* C19: the block a save appends has a "% Errore" section exactly when
\* stderr is not empty and showErrors is set or stdout is empty; in
\* particular a result with an empty stdout and a stderr that is not empty
\* is saved with its section, and once appended the document holds it.
C19_ErroreSection ==
    \A j \in Jobs :
        (job[j].kind \in {"save", "header"} /\ job[j].pc \in {"append", "done"}
           /\ job[j].target # NoActive) =>
            LET res == job[j].result
                wanted == res.stderr # EmptyText /\ (showErrors \/ res.stdout = EmptyText)
            IN  /\ HasLine(job[j].data, "% Errore") = wanted
                /\ (res.stdout = EmptyText /\ res.stderr # EmptyText) =>
                       /\ HasLine(job[j].data, "% Errore")
                       /\ HasLine(job[j].data, "% " \o res.stderr[1])
                /\ (job[j].pc = "done" /\ wanted) =>
                       HasLine(docs[job[j].target], "% Errore")

\* With showErrors off, an aborted result was appended with its section and
\* a result with both texts was formatted without one.
C19_Witness ==
    \E j, i \in Jobs :
        /\ ~showErrors
        /\ job[j].kind = "save" /\ job[j].pc = "done" /\ job[j].result = AbortedResult
        /\ job[j].target # NoActive
        /\ HasLine(docs[job[j].target], "% Errore")
        /\ HasLine(docs[job[j].target], "% Execution aborted")
        /\ job[i].kind = "header" /\ job[i].pc = "done" /\ job[i].target # NoActive
        /\ job[i].result.stdout # EmptyText /\ job[i].result.stderr # EmptyText
        /\ ~HasLine(job[i].data, "% Errore")

\* ------------------------------------------------------------- extension matching
\* Here a string is the sequence of its characters.
MaxTagLen == 3

Asp == <<"a", "s", "p">>
Aspx == <<"a", "s", "p", "x">>
AspVariant == <<"a", "s", "p", ".", "v", "a", "r", "i", "a", "n", "t">>
AspUpper == <<"A", "S", "P">>
\* "asp,dlv", " ASP , dlv" and "asp,": values of settings.customExtensions
\* with two tokens, with blanks and capitals, with a trailing comma.
AspDlv == <<"a", "s", "p", ",", "d", "l", "v">>
AspDlvSpaced == <<" ", "A", "S", "P", " ", ",", " ", "d", "l", "v">>
AspComma == <<"a", "s", "p", ",">>

\* The characters short tags are made of.
TagChars == {"a", "s", "p", ".", "x"}

\* The language tags given to isSupportedLanguage.
Tags ==
    UNION { [1..n -> TagChars] : n \in 0..MaxTagLen }
    \cup {Aspx, AspVariant, AspUpper}

\* The values of settings.customExtensions.
ExtensionSettings == {Asp, Aspx, AspVariant, AspDlv, AspDlvSpaced, AspComma}

ToLowerChar(c) ==
    CASE c = "A" -> "a"
      [] c = "S" -> "s"
      [] c = "P" -> "p"
      [] c = "D" -> "d"
      [] c = "L" -> "l"
      [] c = "V" -> "v"
      [] OTHER -> c

\* s.toLowerCase()
toLowerCase(s) == [i \in 1..Len(s) |-> ToLowerChar(s[i])]

\* s.trim()
RECURSIVE trim(_)
trim(s) ==
    IF s = << >> THEN << >>
    ELSE IF Head(s) = " " THEN trim(Tail(s))
    ELSE IF s[Len(s)] = " " THEN trim(SubSeq(s, 1, Len(s) - 1))
    ELSE s

\* s.split(","): the pieces between the commas, in order.
RECURSIVE split(_)
split(s) ==
    IF \A i \in 1..Len(s) : s[i] # ","
    THEN <<s>>
    ELSE LET k == CHOOSE i \in 1..Len(s) :
                      s[i] = "," /\ \A h \in 1..(i - 1) : s[h] # ","
         IN  <<SubSeq(s, 1, k - 1)>> \o split(SubSeq(s, k + 1, Len(s)))

\* s.startsWith(p)
startsWith(s, p) == Len(p) <= Len(s) /\ SubSeq(s, 1, Len(p)) = p

MatchesTokenPrefix(l, e) == l = e \/ startsWith(l, e)

\* lang.toLowerCase() === e || lang.toLowerCase().startsWith(e + ".")
MatchesToken(l, e) == l = e \/ startsWith(l, e \o <<".">>)

isSupportedLanguage(l, customExtensions) ==
    LET pieces == split(customExtensions)
        tokens == [i \in 1..Len(pieces) |-> toLowerCase(trim(pieces[i]))]
    IN  \E i \in 1..Len(tokens) : MatchesToken(toLowerCase(l), tokens[i])

InitMatch ==
    /\ RunInit /\ dlvExists /\ executionTimeout = DefaultTimeout
    /\ DefaultFlags /\ SinkIdle /\ TriggerIdle
    /\ fn = "none"
    /\ arg \in [lang : Tags, customExtensions : ExtensionSettings]
    /\ ret = << >>

\* this.isSupportedLanguage(arg.lang) with the setting arg.customExtensions
ApplyIsSupportedLanguage ==
    /\ fn = "none"
    /\ fn' = "isSupportedLanguage"
    /\ ret' = isSupportedLanguage(arg.lang, arg.customExtensions)
    /\ UNCHANGED << arg, runVars, settingsVars, sinkVars, triggerVars >>

\* this.isSupportedExtension(arg.lang): the same test on a file extension
ApplyIsSupportedExtension ==
    /\ fn = "none"
    /\ fn' = "isSupportedExtension"
    /\ ret' = isSupportedLanguage(arg.lang, arg.customExtensions)
    /\ UNCHANGED << arg, runVars, settingsVars, sinkVars, triggerVars >>

NextMatch == ApplyIsSupportedLanguage \/ ApplyIsSupportedExtension

SpecMatch == InitMatch /\ [][NextMatch]_vars

\* The extension tokens of each value of settings.customExtensions, written
\* out by hand: split at the commas, trimmed, in lower case.
ExpectedTokens(customExtensions) ==
    CASE customExtensions = Asp -> {Asp}
      [] customExtensions = Aspx -> {Aspx}
      [] customExtensions = AspVariant -> {AspVariant}
      [] customExtensions = AspDlv -> {Asp, <<"d", "l", "v">>}
      [] customExtensions = AspDlvSpaced -> {Asp, <<"d", "l", "v">>}
      [] customExtensions = AspComma -> {Asp, << >>}

\* The test has been applied to a tag and a setting.
Matched == fn \in {"isSupportedLanguage", "isSupportedExtension"}

\* C20 as stated: tag asp matches the configured extension asp and the
\* configured extension asp.variant, but not aspx.
C20_ExtensionMatching ==
    (Matched /\ arg.lang = Asp) =>
        /\ arg.customExtensions = Asp => ret
        /\ arg.customExtensions = AspVariant => ret
        /\ arg.customExtensions = Aspx => ~ret

\* C20 as amended: with the configured extension asp, the tags asp and
\* asp.variant match and aspx does not; the configured extension
\* asp.variant does not match tag asp.  In general a tag is supported
\* exactly when, in lower case, it is a configured token or begins with a
\* configured token followed by a dot; a tag without a dot is supported only
\* when it is a token.
C20_DottedPrefix ==
    Matched =>
        LET l == toLowerCase(arg.lang)
            tokens == ExpectedTokens(arg.customExtensions)
        IN  /\ (arg.customExtensions = Asp /\ arg.lang \in {Asp, AspVariant, AspUpper}) => ret
            /\ (arg.customExtensions = Asp /\ arg.lang = Aspx) => ~ret
            /\ (arg.customExtensions = AspVariant /\ arg.lang = Asp) => ~ret
            /\ ret = \E e \in tokens :
                        \/ l = e
                        \/ /\ Len(l) > Len(e)
                           /\ \A i \in 1..Len(e) : l[i] = e[i]
                           /\ l[Len(e) + 1] = "."
            /\ (ret /\ \A i \in 1..Len(l) : l[i] # ".") => l \in tokens

\* The tag asp.variant was found supported under the configured extension asp.
C20_Witness ==
    /\ fn = "isSupportedLanguage"
    /\ arg.lang = AspVariant /\ arg.customExtensions = Asp
    /\ ret = TRUE

\* ------------------------------------------------------------- fragment locator
\* getEditorDecoration scans the text of the document with the regular
\* expression /```(\S+)\n([\s\S]*?)```/g.  A string is the sequence of its
\* characters; offsets count from 0 as in the code.
MaxPieces == 4

\* The pieces documents are made of: an opening fence line with the tag asp,
\* three backticks, a whole block, a letter, a line break and a single
\* backtick.
\* The backtick character; it is written "bt" here.
Backtick == "bt"
OpenAsp == <<Backtick, Backtick, Backtick, "a", "s", "p", "\n">>
Backticks == <<Backtick, Backtick, Backtick>>
\* A whole fenced block with the tag asp and the body "p\n".
Block == OpenAsp \o <<"p", "\n">> \o Backticks
Pieces == {OpenAsp, Backticks, Block, <<"p">>, <<"\n">>, <<Backtick>>}

RECURSIVE Flatten(_)
Flatten(ps) == IF ps = << >> THEN << >> ELSE Head(ps) \o Flatten(Tail(ps))

\* The documents of at most MaxPieces pieces.
Documents == { Flatten(ps) : ps \in UNION { [1..n -> Pieces] : n \in 0..MaxPieces } }

\* \s of the regular expression
IsSpace(c) == c \in {"\n", " "}

\* text has three backticks at offset i
FenceAt(text, i) ==
    /\ i + 3 <= Len(text)
    /\ text[i + 1] = Backtick /\ text[i + 2] = Backtick /\ text[i + 3] = Backtick

\* The offset of the first character at or after offset i that is a space,
\* Len(text) when there is none: where (\S+) ends.
RECURSIVE TagEnd(_, _)
TagEnd(text, i) ==
    IF i >= Len(text) \/ IsSpace(text[i + 1]) THEN i ELSE TagEnd(text, i + 1)

\* The offset of the first "```" at or after offset i, -1 when there is none:
\* where the lazy ([\s\S]*?) ends.
RECURSIVE NextFence(_, _)
NextFence(text, i) ==
    IF i + 3 > Len(text) THEN -1
    ELSE IF FenceAt(text, i) THEN i
    ELSE NextFence(text, i + 1)

NoMatch == [index |-> -1]

\* The match of the regular expression that begins at offset i, if any:
\* match.index, match[0], match[1] and match[2].
MatchAt(text, i) ==
    IF ~FenceAt(text, i) THEN NoMatch
    ELSE LET tagEnd == TagEnd(text, i + 3)
         IN  IF tagEnd = i + 3 \/ tagEnd >= Len(text) \/ text[tagEnd + 1] # "\n"
             THEN NoMatch
             ELSE LET close == NextFence(text, tagEnd + 1)
                  IN  IF close = -1 THEN NoMatch
                      ELSE [index |-> i,
                            whole |-> SubSeq(text, i + 1, close + 3),
                            tag |-> SubSeq(text, i + 4, tagEnd),
                            body |-> SubSeq(text, tagEnd + 2, close)]

\* regex.exec(text) in a loop: the matches from lastIndex i on, left to
\* right; after a match the search resumes at its end.
RECURSIVE Matches(_, _)
Matches(text, i) ==
    IF i >= Len(text) THEN << >>
    ELSE LET m == MatchAt(text, i)
         IN  IF m = NoMatch THEN Matches(text, i + 1)
             ELSE <<m>> \o Matches(text, i + Len(m.whole))

\* haystack.indexOf(needle): the offset of the first occurrence from offset
\* i on, -1 when there is none; the empty string occurs at once.
RECURSIVE IndexOfFrom(_, _, _)
IndexOfFrom(haystack, needle, i) ==
    IF i + Len(needle) > Len(haystack) THEN -1
    ELSE IF SubSeq(haystack, i + 1, i + Len(needle)) = needle THEN i
    ELSE IndexOfFrom(haystack, needle, i + 1)

indexOf(haystack, needle) == IndexOfFrom(haystack, needle, 0)

StartOffsetInMatch(m) == indexOf(m.whole, m.body)

\* const start = match.index + match[0].indexOf(match[2])
StartOffset(m) == m.index + indexOf(m.whole, m.body)

\* What the widget of a match is built with: lang, start and end.
Fragment(m) ==
    [lang |-> toLowerCase(m.tag),
     start |-> StartOffset(m),
     end |-> StartOffset(m) + Len(m.body)]

\* The matches whose tag is supported under the default customExtensions.
SupportedMatches(text) ==
    SelectSeq(Matches(text, 0), LAMBDA m : isSupportedLanguage(toLowerCase(m.tag), Asp))

\* The fragments of one computation of the decorations, in document order.
getEditorDecoration(text) ==
    LET ms == SupportedMatches(text)
    IN  [i \in 1..Len(ms) |-> Fragment(ms[i])]

\* The texts an edit inserts.
Insertions == {<<"p">>, <<"\n">>, <<"p", "\n">>, <<Backtick>>}

\* text with t inserted at offset p
InsertAt(text, p, t) == SubSeq(text, 1, p) \o t \o SubSeq(text, p + 1, Len(text))

InitScan ==
    /\ RunInit /\ dlvExists /\ executionTimeout = DefaultTimeout
    /\ DefaultFlags /\ SinkIdle /\ TriggerIdle
    /\ fn = "none"
    /\ arg \in Documents
    /\ ret = << >>

\* The decorations are computed for the document arg.
Scan ==
    /\ fn = "none"
    /\ fn' = "scan"
    /\ ret' = getEditorDecoration(arg)
    /\ UNCHANGED << arg, runVars, settingsVars, sinkVars, triggerVars >>

\* The decorations were computed for the document arg; t is inserted at
\* offset p and they are computed again for the new document.
Edit(p, t) ==
    /\ fn = "none"
    /\ p \in 0..Len(arg)
    /\ fn' = "edit"
    /\ ret' = [pos |-> p, inserted |-> t,
               before |-> getEditorDecoration(arg),
               after |-> getEditorDecoration(InsertAt(arg, p, t))]
    /\ UNCHANGED << arg, runVars, settingsVars, sinkVars, triggerVars >>

\* The longest document.
MaxDocLen == MaxPieces * Len(Block)

NextScan ==
    \/ Scan
    \/ \E p \in 0..MaxDocLen, t \in Insertions : Edit(p, t)

SpecScan == InitScan /\ [][NextScan]_vars

\* The fragment f moved by k characters.
Shifted(f, k) == [f EXCEPT !.start = @ + k, !.end = @ + k]

\* The end offset of the match m.
MatchEnd(m) == m.index + Len(m.whole)

\* C21 as stated: after any text was inserted before a fragment, the scan
\* yields that fragment with both offsets increased by the length of the
\* inserted text.
C21_InsertShifts ==
    fn = "edit" =>
        LET ms == SupportedMatches(arg)
        IN  \A i \in 1..Len(ms) :
                ret.pos <= ms[i].index =>
                    \E j \in 1..Len(ret.after) :
                        ret.after[j] = Shifted(ret.before[i], Len(ret.inserted))

\* The insertion of t at offset p of text touches no fence: t has no
\* backtick, p is not inside a match of the regular expression, and there is
\* no backtick between the end of the last match before p (or the beginning
\* of the text) and p.
AwayFromFences(text, p, t) ==
    LET all == Matches(text, 0)
        ends == {0} \cup {MatchEnd(all[i]) : i \in {h \in 1..Len(all) : MatchEnd(all[h]) <= p}}
        prevEnd == CHOOSE e \in ends : \A x \in ends : x <= e
    IN  /\ \A i \in 1..Len(t) : t[i] # Backtick
        /\ \A i \in 1..Len(all) : p <= all[i].index \/ p >= MatchEnd(all[i])
        /\ \A i \in (prevEnd + 1)..p : text[i] # Backtick

\* C21 as amended: after a text without backticks was inserted away from
\* the fences, the scan yields the same fragments: those before the
\* insertion unchanged, those after it with both offsets increased by the
\* length of the inserted text.
C21_InsertShiftsAwayFromFences ==
    (fn = "edit" /\ AwayFromFences(arg, ret.pos, ret.inserted)) =>
        LET ms == SupportedMatches(arg)
        IN  /\ Len(ret.after) = Len(ret.before)
            /\ Len(ms) = Len(ret.before)
            /\ \A i \in 1..Len(ms) :
                  ret.after[i] =
                      IF ret.pos <= ms[i].index
                      THEN Shifted(ret.before[i], Len(ret.inserted))
                      ELSE ret.before[i]

\* Two characters with a line break were inserted between two fragments:
\* the first kept its offsets, the second moved by two.
C21_Witness ==
    /\ fn = "edit"
    /\ AwayFromFences(arg, ret.pos, ret.inserted)
    /\ Len(ret.inserted) = 2
    /\ Len(ret.before) = 2
    /\ ret.after[1] = ret.before[1]
    /\ ret.after[2].start = ret.before[2].start + 2
    /\ ret.after[2].end = ret.before[2].end + 2

\* The lines of t that are not empty, in order.
NonEmptyLines(t) == SelectSeq(t, LAMBDA l : l # "")

\* t without its first line when that is a version banner followed by a
\* line break.
WithoutLeadingBanner(t) ==
    IF Len(t) > 1 /\ t[1] = "DLV 2.1.0" THEN SubSeq(t, 2, Len(t)) ELSE t

\* C22: cleanOutput strips a leading version banner line, removes every
\* generic-warning line and trims: the scenario stdout becomes "Answer: 1"
\* and "{a,b}"; the result begins and ends with a line that is not empty and
\* has no warning line; what remains are the other lines, in order; a text
\* without banner and warning is only trimmed.
C22_CleanOutput ==
    fn = "cleanOutput" =>
        /\ arg = ScenarioStdout => ret = <<"Answer: 1", "{a,b}">>
        /\ ret # << >> => (ret[1] # "" /\ ret[Len(ret)] # "")
        /\ \A i \in 1..Len(ret) : ret[i] # "Generic warning: x"
        /\ NonEmptyLines(ret) =
              SelectSeq(WithoutLeadingBanner(arg),
                        LAMBDA l : l # "" /\ l # "Generic warning: x")
        /\ (\A i \in 1..Len(arg) : arg[i] \notin {"DLV 2.1.0", "Generic warning: x"})
              => ret = Trim(arg)

\* The scenario stdout was cleaned.
C22_Witness ==
    /\ fn = "cleanOutput"
    /\ arg = ScenarioStdout
    /\ ret = <<"Answer: 1", "{a,b}">>

\* The stderr lines that hold the rooted path of the temp file.
RootedPathLines ==
    {"/tmp/dlv-temp-1.asp: line 3: syntax error",
     "/tmp/dlv-temp-2.asp: line 3: syntax error"}

\* The stderr lines with the pattern "line N: message".
LineNLines == RootedPathLines \cup {"line 3: syntax error"}

\* How many lines of t are in S.
Count(t, S) == Cardinality({i \in 1..Len(t) : t[i] \in S})

C24_Reproducible ==
    fn = "cleanErrorsTwoRuns" => ret.first = ret.second

\* ------------------------------------------------------------- executable discovery and path resolution
\* File names are sequences of characters, paths sequences of components.
DlvExe == <<"d", "l", "v", ".", "e", "x", "e">>
DlvUpperExe == <<"D", "L", "V", "2", ".", "e", "x", "e">>
DlvLinux == <<"d", "l", "v", "-", "l", "i", "n", "u", "x">>
MyDlvTxt == <<"m", "y", "d", "l", "v", ".", "t", "x", "t">>
SolverExe == <<"s", "o", "l", "v", "e", "r", ".", "e", "x", "e">>

\* The names a file of the executables directory can have.
FileNames == {DlvExe, DlvUpperExe, DlvLinux, MyDlvTxt, SolverExe}

\* this.pluginPath and settings.absolutePath
PluginPath == <<"vault", "plugins", "dlv">>
AbsolutePath == <<"opt", "dlv2">>

\* s.includes(p)
includes(s, p) == indexOf(s, p) # -1

\* s.endsWith(p)
endsWith(s, p) == Len(p) <= Len(s) /\ SubSeq(s, Len(s) - Len(p) + 1, Len(s)) = p

\* The filter of refreshExecutablesList: f.toLowerCase().includes('dlv')
IsCandidate(f) == includes(toLowerCase(f), <<"d", "l", "v">>)

\* isValidExecutable: on Windows the name ends in .exe, elsewhere it matches
\* /^dlv[-_]?(linux|mac|.*)/i, that is, it begins with dlv.
isValidExecutable(platform, filename) ==
    IF platform = "win32"
    THEN endsWith(toLowerCase(filename), <<".", "e", "x", "e">>)
    ELSE startsWith(toLowerCase(filename), <<"d", "l", "v">>)

\* path.join('executables', f)
RelativeTo(f) == <<"executables", f>>

\* What refreshExecutablesList leaves in settings.availableExecutables: in
\* relative mode the candidates among the entries of the directory, in
\* absolute mode what was there before.
refreshExecutablesList(dlvLocationType, entries, previous) ==
    IF dlvLocationType = "relative"
    THEN { RelativeTo(f) : f \in {e \in entries : IsCandidate(e)} }
    ELSE previous

getDlvPathFromList(dlvLocationType, absolutePath, relativeExecutable, available) ==
    IF dlvLocationType = "absolute" THEN absolutePath
    ELSE IF relativeExecutable \in available THEN PluginPath \o relativeExecutable
    ELSE << >>

\* getDlvPath; the discovered list is not looked at.
getDlvPath(dlvLocationType, absolutePath, relativeExecutable, available) ==
    IF dlvLocationType = "absolute" THEN absolutePath
    ELSE PluginPath \o relativeExecutable

\* The files on disk: the entries of the executables directory and, when it
\* exists, the file at the absolute path.
FilesOnDisk(a) ==
    { PluginPath \o RelativeTo(f) : f \in a.entries }
    \cup (IF a.absoluteExists THEN {AbsolutePath} ELSE {})

InitResolve ==
    /\ RunInit /\ dlvExists /\ executionTimeout = DefaultTimeout
    /\ DefaultFlags /\ SinkIdle /\ TriggerIdle
    /\ fn = "none"
    /\ arg \in [platform : {"win32", "linux"},
                dlvLocationType : {"absolute", "relative"},
                relativeExecutable : {RelativeTo(DlvExe), RelativeTo(SolverExe)},
                entries : SUBSET FileNames,
                absoluteExists : BOOLEAN]
    /\ ret = << >>

\* loadSettings: the list is refreshed from the directory.
RefreshExecutablesList ==
    /\ fn = "none"
    /\ fn' = "refreshExecutablesList"
    /\ ret' = [availableExecutables |->
                  refreshExecutablesList(arg.dlvLocationType, arg.entries, {})]
    /\ UNCHANGED << arg, runVars, settingsVars, sinkVars, triggerVars >>

\* executeDlv up to fs.access(dlvPath): the path is resolved and the call
\* goes on exactly when the file exists.
ResolveAndAccess ==
    /\ fn = "refreshExecutablesList"
    /\ fn' = "getDlvPath"
    /\ LET dlvPath == getDlvPath(arg.dlvLocationType, AbsolutePath,
                                 arg.relativeExecutable, ret.availableExecutables)
       IN  ret' = [availableExecutables |-> ret.availableExecutables,
                   dlvPath |-> dlvPath,
                   proceeds |-> dlvPath \in FilesOnDisk(arg)]
    /\ UNCHANGED << arg, runVars, settingsVars, sinkVars, triggerVars >>

NextResolve == RefreshExecutablesList \/ ResolveAndAccess

SpecResolve == InitResolve /\ [][NextResolve]_vars

\* C25: in relative mode the discovered candidates are exactly the entries
\* of the executables directory whose name contains "dlv" in any case and
\* that pass the platform filter.
C25_DiscoveryFiltered ==
    (fn = "refreshExecutablesList" /\ arg.dlvLocationType = "relative") =>
        ret.availableExecutables =
            { RelativeTo(f) : f \in {e \in arg.entries :
                  IsCandidate(e) /\ isValidExecutable(arg.platform, e)} }

\* The configured file: what the settings name, read off the inputs alone.
ConfiguredFile(a) ==
    IF a.dlvLocationType = "absolute" THEN AbsolutePath
    ELSE PluginPath \o a.relativeExecutable

ConfiguredFileExists(a) ==
    IF a.dlvLocationType = "absolute" THEN a.absoluteExists
    ELSE a.relativeExecutable[2] \in a.entries

\* C26: the resolved path is the configured absolute path in absolute mode
\* and the plugin directory joined with the configured relative executable
\* in relative mode, and the run proceeds exactly when that file exists,
\* whatever the discovered list holds.
C26_ResolutionIgnoresDiscovery ==
    fn = "getDlvPath" =>
        /\ ret.dlvPath = ConfiguredFile(arg)
        /\ ret.proceeds <=> ConfiguredFileExists(arg)

\* A run proceeds with a relative executable that discovery did not list.
C26_Witness ==
    /\ fn = "getDlvPath"
    /\ arg.dlvLocationType = "relative"
    /\ arg.relativeExecutable \notin ret.availableExecutables
    /\ ret.proceeds

\* ------------------------------------------------------------- the buttons of a code-block widget
\* Clicks are numbered in the order they are made.  A disabled button does
\* not deliver a click, and neither does a hidden one.
NextClick(k) ==
    /\ click[k].state = "idle"
    /\ \A i \in Clicks : i < k => click[i].state # "idle"

\* runBtn.onclick up to the await: toggleButtons(true), a new controller is
\* stored in the widget and executeDlv is called with its signal.
ClickRun(k) ==
    /\ ~running
    /\ NextClick(k)
    /\ running' = TRUE
    /\ abortController' = k
    /\ click' = [click EXCEPT ![k] = [kind |-> "run", state |-> "inflight", aborted |-> FALSE]]
    /\ UNCHANGED << runVars, pureVars, settingsVars, sinkVars >>

\* saveBtn.onclick up to the await: toggleButtons(true) and executeDlv is
\* called without a signal; the controller field is not touched.
ClickSave(k) ==
    /\ ~running
    /\ NextClick(k)
    /\ running' = TRUE
    /\ click' = [click EXCEPT ![k] = [kind |-> "save", state |-> "inflight", aborted |-> FALSE]]
    /\ UNCHANGED << abortController, runVars, pureVars, settingsVars, sinkVars >>

\* stopBtn.onclick: with a controller stored, it is aborted and
\* toggleButtons(false) enables Run and Save; without one nothing happens.
ClickStop ==
    /\ running
    /\ abortController # NoController
    /\ click' = [click EXCEPT ![abortController].aborted = TRUE]
    /\ running' = FALSE
    /\ UNCHANGED << abortController, runVars, pureVars, settingsVars, sinkVars >>

\* executeDlv of click k returns, after completion, failure or abort, and
\* the handler goes on after its await: the finally block calls
\* toggleButtons(false) and, in the Run handler, clears the controller field.
Settle(k) ==
    /\ click[k].state = "inflight"
    /\ click' = [click EXCEPT ![k].state = "settled"]
    /\ running' = FALSE
    /\ abortController' = IF click[k].kind = "run" THEN NoController ELSE abortController
    /\ UNCHANGED << runVars, pureVars, settingsVars, sinkVars >>

NextTrigger ==
    \/ \E k \in Clicks : ClickRun(k)
    \/ \E k \in Clicks : ClickSave(k)
    \/ ClickStop
    \/ \E k \in Clicks : Settle(k)

SpecTrigger == Init /\ [][NextTrigger]_vars

InFlightClicks == { k \in Clicks : click[k].state = "inflight" }

\* C27: at most one executeDlv run started from the widget is in flight at
\* any time, under any sequence of Run, Save and Stop clicks.
C27_OneRunPerTrigger == Cardinality(InFlightClicks) <= 1

\* C28: the controller of a call is registered before its process is
\* spawned and stays registered as long as the process may be running:
\* every running solver process belongs to a registered controller.
C28_RunningIsRegistered ==
    \A r \in Runs : proc[r] = "running" => r \in activeAbortControllers

\* How a call can end other than by its timer: the process completed, the
\* process or its preparation failed, or the call was cancelled.
EndedByCompletion == {"success"}
EndedByFailure == {"failure", "spawnerror", "missing", "mkdirerror", "writeerror"}
EndedByCancellation == {"killed", "abortedAtSpawn"}

\* C29: with executionTimeout 0 no timer is ever started, and no call ends
\* with "Execution timeout": a call ends only by completion of the process,
\* by failure or by cancellation.
C29_NoTimerWithoutTimeout ==
    executionTimeout = 0 =>
        \A r \in Runs :
            /\ timer[r] = "none"
            /\ Ended(r) =>
                /\ ending[r] \in EndedByCompletion \cup EndedByFailure \cup EndedByCancellation
                /\ result[r].stderr # <<"Execution timeout">>

\* With timeout 0 a call has spawned its process and ended.
C29_Witness ==
    /\ executionTimeout = 0
    /\ \E r \in Runs : Ended(r) /\ proc[r] = "exited" /\ ending[r] = "success"

\* The offset of the first character after the opening fence line of the
\* match m: past the three backticks, the tag and the line break.
BodyOffset(m) == m.index + 3 + Len(m.tag) + 1

\* C30: every fragment of a scan has 0 <= start <= end <= length of the
\* text, its start is the offset of the first character after the opening
\* fence line of its match, and the text from start to end is the body of
\* the match, also when the body is empty or occurs in the opening fence line.
C30_FragmentOffsets ==
    fn = "scan" =>
        LET ms == SupportedMatches(arg)
        IN  \A i \in 1..Len(ret) :
                /\ 0 <= ret[i].start
                /\ ret[i].start <= ret[i].end
                /\ ret[i].end <= Len(arg)
                /\ ret[i].start = BodyOffset(ms[i])
                /\ SubSeq(arg, ret[i].start + 1, ret[i].end) = ms[i].body

\* The block of the append format for res without an error section, and the
\* error section.
AnswerSetPart(res) == <<"% " \o Timestamp, "% AnswerSet">> \o Commented(res.stdout)
ErrorePart(res) == <<"% Errore">> \o Commented(res.stderr)

\* C31: every block written by saveExecutionResult is a "% <timestamp>"
\* line, a "% AnswerSet" line and one "% " line per stdout line, optionally
\* followed by a "% Errore" line and one "% " line per stderr line, for
\* every result, one with an empty stdout included.
C31_AppendFormat ==
    \A j \in Jobs :
        (job[j].kind \in {"save", "header"} /\ job[j].pc \in {"append", "done"}
           /\ job[j].target # NoActive) =>
            LET res == job[j].result
            IN  \/ job[j].data = AnswerSetPart(res)
                \/ job[j].data = AnswerSetPart(res) \o ErrorePart(res)

\* The process of call r has been spawned.
Spawned(r) == proc[r] # "none"

\* C32: no call is retried: a call spawns at most one process, when its
\* writeFile is done; a process that has exited or was killed is not started
\* again; and a call that has returned, after a failure, a timeout or an
\* abort as well, stays returned and spawns nothing more.
C32_NoRetry ==
    [][\A r \in Runs :
          /\ (~Spawned(r) /\ Spawned(r)') => (pc[r] = "writeFile" /\ ~Ended(r))
          /\ Spawned(r) => Spawned(r)'
          /\ proc[r] \in {"exited", "killed"} => proc'[r] = proc[r]
          /\ Ended(r) => (Ended(r)' /\ proc'[r] \in {proc[r], "exited", "killed"}
                                    /\ (proc[r] = "none" => proc'[r] = "none"))]_vars

\* One call was ended by its timer and another by an abort that killed its
\* process; both have returned.
C32_Witness ==
    \E r, q \in Runs :
        /\ Ended(r) /\ ending[r] = "timeout" /\ Spawned(r)
        /\ Ended(q) /\ ending[q] = "killed" /\ Spawned(q)

\* ------------------------------------------------------------- the widgets of the editor
\* The document of the editor is arg; it changes with every edit.  ret holds
\* the widgets that are drawn and what the last click executed.
MaxEdits == 2

BlockQ == OpenAsp \o <<"q", "\n">> \o Backticks
EditorDocuments == {Block, BlockQ, Block \o <<"\n">> \o BlockQ}

\* The characters an edit types.
EditChars == {"p", "q", "\n"}

\* text with the character at offset p replaced by c
ReplaceAt(text, p, c) == [text EXCEPT ![p + 1] = c]

\* text.slice(start, end)
slice(text, start, end) == SubSeq(text, start + 1, end)

\* s.trim() of a text with line breaks
RECURSIVE trimText(_)
trimText(s) ==
    IF s = << >> THEN << >>
    ELSE IF IsSpace(Head(s)) THEN trimText(Tail(s))
    ELSE IF IsSpace(s[Len(s)]) THEN trimText(SubSeq(s, 1, Len(s) - 1))
    ELSE s

\* new CodeBlockWidget(this, lang, start, end, text) for every fragment
NewWidgets(text) ==
    LET fs == getEditorDecoration(text)
    IN  [i \in 1..Len(fs) |->
            [lang |-> fs[i].lang, start |-> fs[i].start, end |-> fs[i].end,
             docText |-> text]]

\* CodeBlockWidget.eq
eq(w, other) ==
    w.start = other.start /\ w.end = other.end /\ w.lang = other.lang

\* The widgets drawn after the decorations were computed again: a drawn
\* widget that eq reports equal to a new one is kept, otherwise the new
\* widget is drawn.
Redraw(drawn, new) ==
    [i \in 1..Len(new) |->
        IF \E k \in 1..Len(drawn) : eq(drawn[k], new[i])
        THEN drawn[CHOOSE k \in 1..Len(drawn) : eq(drawn[k], new[i])]
        ELSE new[i]]

\* The text runBtn.onclick and saveBtn.onclick of the widget w give to
\* executeDlv: this.docText.slice(this.start, this.end).trim()
CodeContent(w) == trimText(slice(w.docText, w.start, w.end))

InitEditor ==
    /\ RunInit /\ dlvExists /\ executionTimeout = DefaultTimeout
    /\ DefaultFlags /\ SinkIdle /\ TriggerIdle
    /\ fn = "none"
    /\ arg \in EditorDocuments
    /\ ret = << >>

\* The document is opened in the editor: its widgets are drawn.
OpenEditor ==
    /\ fn = "none"
    /\ fn' = "view"
    /\ ret' = [widgets |-> NewWidgets(arg), edits |-> 0, clicked |-> 0,
               executed |-> << >>]
    /\ UNCHANGED << arg, runVars, settingsVars, sinkVars, triggerVars >>

\* The decorations are computed again for the edited document.
Edited(text) ==
    /\ fn = "view"
    /\ ret.edits < MaxEdits
    /\ arg' = text
    /\ ret' = [ret EXCEPT !.widgets = Redraw(ret.widgets, NewWidgets(text)),
                          !.edits = @ + 1]
    /\ UNCHANGED << fn, runVars, settingsVars, sinkVars, triggerVars >>

\* The user types c over the character at offset p.
Overwrite(p, c) ==
    /\ p < Len(arg)
    /\ arg[p + 1] # c
    /\ Edited(ReplaceAt(arg, p, c))

\* The user inserts c at offset p.
Insert(p, c) ==
    /\ p <= Len(arg)
    /\ Edited(InsertAt(arg, p, <<c>>))

\* A click on Run or Save of the i-th widget: the text given to executeDlv.
ClickWidget(i) ==
    /\ fn = "view"
    /\ i \in 1..Len(ret.widgets)
    /\ fn' = "clicked"
    /\ ret' = [ret EXCEPT !.clicked = i, !.executed = CodeContent(ret.widgets[i])]
    /\ UNCHANGED << arg, runVars, settingsVars, sinkVars, triggerVars >>

\* The longest document of the editor.
MaxEditorLen == 2 * Len(Block) + 1 + MaxEdits

NextEditor ==
    \/ OpenEditor
    \/ \E p \in 0..MaxEditorLen, c \in EditChars : Overwrite(p, c)
    \/ \E p \in 0..MaxEditorLen, c \in EditChars : Insert(p, c)
    \/ \E i \in 1..2 : ClickWidget(i)

SpecEditor == InitEditor /\ [][NextEditor]_vars

\* C33: the text a click on a widget executes is the text of the current
\* document between the offsets of the widget, also after edits that leave
\* start, end and language of the fragment unchanged.
C33_ExecutesCurrentText ==
    fn = "clicked" =>
        LET w == ret.widgets[ret.clicked]
        IN  ret.executed = trimText(slice(arg, w.start, w.end))

\* C34: while a run started from the widget is in flight, not yet aborted,
\* and the Stop button is shown, the abortController of the widget is the
\* controller of that run, so that a click on Stop aborts it.
C34_StopReachesRun ==
    \A k \in Clicks :
        (click[k].state = "inflight" /\ ~click[k].aborted /\ running) =>
            abortController = k

\* C35: the buttons of the widget are in the running state exactly while a
\* run started from the widget is in flight; once every run has returned
\* they are in the idle state.
C35_ButtonsFollowRuns == running <=> InFlightClicks # {}

\* ------------------------------------------------------------- the output panel of a reading-view block
\* The Run button of a code block of the reading view is never disabled:
\* several runs of the block can be in flight, and each renders into the
\* same output element when its executeDlv call returns.  arg gives the
\* result of each run; ret holds where each run stands, the runs that have
\* returned, in that order, and what the output element shows.
InitPanel ==
    /\ RunInit /\ dlvExists /\ executionTimeout = DefaultTimeout
    /\ DefaultFlags /\ SinkIdle /\ TriggerIdle
    /\ fn = "reading"
    /\ arg \in [Jobs -> SinkResults]
    /\ ret = [run |-> [j \in Jobs |-> "idle"], returned |-> << >>,
              outputPre |-> NoPanel]

\* runBtn.onclick of the block up to its await: executeDlv is called.
\* Clicks are numbered in the order they are made.
ClickReadingRun(j) ==
    /\ fn = "reading"
    /\ ret.run[j] = "idle"
    /\ \A i \in Jobs : i < j => ret.run[i] # "idle"
    /\ ret' = [ret EXCEPT !.run[j] = "inflight"]
    /\ UNCHANGED << fn, arg, runVars, settingsVars, sinkVars, triggerVars >>

RenderFirst(shown, res) == IF shown = NoPanel THEN updateOutputUI(res) ELSE shown

\* this.updateOutputUI(outputPre, copyBtn, result): what the element showed
\* is replaced.
Render(shown, res) == updateOutputUI(res)

\* executeDlv of run j returns and the handler renders its result.
ReadingRunReturns(j) ==
    /\ fn = "reading"
    /\ ret.run[j] = "inflight"
    /\ ret' = [ret EXCEPT !.run[j] = "done",
                          !.returned = Append(@, j),
                          !.outputPre = Render(@, arg[j])]
    /\ UNCHANGED << fn, arg, runVars, settingsVars, sinkVars, triggerVars >>

NextPanel ==
    \/ \E j \in Jobs : ClickReadingRun(j)
    \/ \E j \in Jobs : ReadingRunReturns(j)

SpecPanel == InitPanel /\ [][NextPanel]_vars

\* The runs triggered so far and the one triggered last.
Triggered == { j \in Jobs : ret.run[j] # "idle" }
LastTriggered == CHOOSE j \in Triggered : \A i \in Triggered : i <= j

\* C36 as stated: when all the runs triggered from the block have returned,
\* the output element shows the result of the run triggered last, whatever
\* the order of their returns.
C36_ShowsLastTriggered ==
    (Triggered # {} /\ \A j \in Triggered : ret.run[j] = "done") =>
        ret.outputPre = updateOutputUI(arg[LastTriggered])

\* C36 as amended: as soon as a run of the block has returned, the output
\* element shows the result of the run that returned last.
C36_ShowsLastReturned ==
    ret.returned # << >> =>
        ret.outputPre = updateOutputUI(arg[ret.returned[Len(ret.returned)]])

\* Two runs with different results returned in the order opposite to their
\* clicks: the element shows the result of the first click.
C36_Witness ==
    /\ ret.returned = <<2, 1>>
    /\ updateOutputUI(arg[1]) # updateOutputUI(arg[2])
    /\ ret.outputPre = updateOutputUI(arg[1])

\* ------------------------------------------------------------- termination under a timeout
\* A positive timeout is configured.  The file system operations of a call
\* complete and an armed timer fires; the solver process need not exit.
InitTimeout ==
    /\ RunInit /\ executionTimeout = CustomTimeout
    /\ PureIdle /\ DefaultFlags /\ SinkIdle /\ TriggerIdle

Fairness ==
    \A r \in Runs :
        /\ WF_vars(AccessDone(r))
        /\ WF_vars(\E ok \in BOOLEAN, t \in 0..MaxRuns : MkdirDone(r, ok, t))
        /\ WF_vars(\E ok \in BOOLEAN, spawnOk \in BOOLEAN : WriteDone(r, ok, spawnOk))
        /\ WF_vars(TimerFire(r))
        /\ WF_vars(UnlinkDone(r))

\* The steps of Next for calls with the language tag asp, made without a
\* signal or with a live one.
NextTimeout ==
    \/ \E r \in Runs, s \in {"none", "live"} : Call(r, "asp", s)
    \/ \E r \in Runs : AccessDone(r)
    \/ \E r \in Runs, ok \in BOOLEAN, t \in 0..MaxRuns : MkdirDone(r, ok, t)
    \/ \E r \in Runs, ok \in BOOLEAN, spawnOk \in BOOLEAN : WriteDone(r, ok, spawnOk)
    \/ \E r \in Runs, out \in ProcOutcomes : ProcExit(r, out)
    \/ \E r \in Runs : TimerFire(r)
    \/ \E r \in Runs : UnlinkDone(r)
    \/ \E r \in Runs : SignalAbort(r)
    \/ Unload

SpecTimeout == InitTimeout /\ [][NextTimeout]_vars /\ Fairness

\* C37: with a positive timeout every call that was made returns a result,
\* even if its process never exits; and once a call has returned, no later
\* step, the late firing of its timer included, changes its result or puts
\* its controller back into the registry: a call delivers one result.
C37_TimeoutTerminates ==
    /\ \A r \in Runs : (pc[r] # "idle") ~> Ended(r)
    /\ [][\A r \in Runs :
             Ended(r) => /\ Ended(r)'
                         /\ result'[r] = result[r]
                         /\ r \notin activeAbortControllers']_vars

\* One call was ended by its timer while its process goes on running; the
\* timer of another fired after the call had returned the process result.
C37_Witness ==
    \E r, q \in Runs :
        /\ Ended(r) /\ ending[r] = "timeout" /\ proc[r] = "running"
        /\ Ended(q) /\ ending[q] = "success" /\ timer[q] = "fired"

\* ------------------------------------------------------------- saveSettings
\* arg says which files are on disk; ret holds the settings in memory, the
\* persisted data, the notices shown and where each saveSettings call stands.
MaxChanges == 2

Changes == 1..MaxChanges

\* The settings of this part: the three that locate the executable and one
\* that does not.
SettingValues ==
    [dlvLocationType |-> {"absolute", "relative"},
     absolutePath |-> {<< >>, AbsolutePath},
     relativeExecutable |-> {RelativeTo(DlvExe), RelativeTo(SolverExe)},
     showErrors |-> BOOLEAN]

\* DEFAULT_SETTINGS
DefaultSettings ==
    [dlvLocationType |-> "relative", absolutePath |-> << >>,
     relativeExecutable |-> RelativeTo(DlvExe), showErrors |-> FALSE]

\* The path saveSettings checks.
SettingsPath(s) ==
    IF s.dlvLocationType = "relative" THEN PluginPath \o s.relativeExecutable
    ELSE s.absolutePath

AccessAlwaysSucceeds(path, disk) == TRUE

\* fs.access(path).then(() => true).catch(() => false)
AccessSucceeds(path, disk) == path \in disk

NoCall == [state |-> "idle"]

InitSettings ==
    /\ RunInit /\ dlvExists /\ executionTimeout = DefaultTimeout
    /\ DefaultFlags /\ SinkIdle /\ TriggerIdle
    /\ fn = "settings"
    /\ arg \in [entries : SUBSET {DlvExe, SolverExe}, absoluteExists : BOOLEAN]
    /\ ret = [settings |-> DefaultSettings, data |-> DefaultSettings,
              notices |-> 0, call |-> [k \in Changes |-> NoCall]]

\* onChange of a setting: the value is stored in memory and saveSettings is
\* called, which computes the path and starts fs.access.  Changes are
\* numbered in the order they are made.
ChangeSetting(k, field, value) ==
    /\ fn = "settings"
    /\ ret.call[k].state = "idle"
    /\ \A i \in Changes : i < k => ret.call[i].state # "idle"
    /\ value \in SettingValues[field]
    /\ LET s == [ret.settings EXCEPT ![field] = value]
       IN  ret' = [ret EXCEPT !.settings = s,
                              !.call[k] = [state |-> "access", path |-> SettingsPath(s),
                                           field |-> field, value |-> value,
                                           settings |-> s]]
    /\ UNCHANGED << fn, arg, runVars, settingsVars, sinkVars, triggerVars >>

\* fs.access of call k has settled: a notice and nothing else when the file
\* is missing, saveData(this.settings) otherwise.
AccessSettled(k) ==
    /\ fn = "settings"
    /\ ret.call[k].state = "access"
    /\ IF AccessSucceeds(ret.call[k].path, FilesOnDisk(arg))
       THEN ret' = [ret EXCEPT !.data = ret.settings, !.call[k].state = "saved"]
       ELSE ret' = [ret EXCEPT !.notices = @ + 1, !.call[k].state = "refused"]
    /\ UNCHANGED << fn, arg, runVars, settingsVars, sinkVars, triggerVars >>

NextSettings ==
    \/ \E k \in Changes, field \in DOMAIN SettingValues :
          \E value \in SettingValues[field] : ChangeSetting(k, field, value)
    \/ \E k \in Changes : AccessSettled(k)

SpecSettings == InitSettings /\ [][NextSettings]_vars

\* The executable that the settings s configure exists on the disk a.
ExecutableExists(s, a) ==
    IF s.dlvLocationType = "relative"
    THEN s.relativeExecutable[2] \in a.entries
    ELSE s.absolutePath = AbsolutePath /\ a.absoluteExists

MaxTextLen == 3

\* The largest finite number has 309 digits: a decimal integer of more
\* digits is read as Infinity.  No text below has exactly 309 digits.
MaxFiniteDigits == 309

Finite(n) == [kind |-> "finite", value |-> n]
PlusInfinity == [kind |-> "infinite", value |-> 1]
MinusInfinity == [kind |-> "infinite", value |-> -1]
NaN == [kind |-> "NaN", value |-> 0]

DigitChars == {"0", "1", "9"}
DigitOf(c) == CASE c = "0" -> 0 [] c = "1" -> 1 [] c = "9" -> 9

\* A digit string too long for a finite number.
Overflowing == [i \in 1..(MaxFiniteDigits + 1) |-> "9"]

\* What is typed into the field at once: a character or the long digit
\* string.  At most MaxTextLen edits are made.
TextPieces == { <<c>> : c \in DigitChars \cup {"-", "a", " ", "."} } \cup {Overflowing}
\* The length of the longest prefix of s whose characters are all in C.
PrefixLen(s, C) ==
    CHOOSE n \in 0..Len(s) :
        /\ \A i \in 1..n : s[i] \in C
        /\ n < Len(s) => s[n + 1] \notin C

\* s without its longest prefix of characters of C
DropPrefix(s, C) == SubSeq(s, PrefixLen(s, C) + 1, Len(s))

StripLeadingSpace(s) == DropPrefix(s, {"\n", " "})

DigitPrefix(s) == SubSeq(s, 1, PrefixLen(s, DigitChars))

StripZeros(d) == DropPrefix(d, {"0"})

RECURSIVE DigitsValue(_)
DigitsValue(d) ==
    IF d = << >> THEN 0
    ELSE 10 * DigitsValue(SubSeq(d, 1, Len(d) - 1)) + DigitOf(d[Len(d)])

\* parseInt(s): leading white space is skipped, a sign is read, then the
\* longest run of digits; without a digit the result is NaN.
parseInt(s) ==
    LET t == StripLeadingSpace(s)
        neg == t # << >> /\ Head(t) = "-"
        u == IF neg THEN Tail(t) ELSE t
        d == DigitPrefix(u)
        sig == StripZeros(d)
    IN  IF d = << >> THEN NaN
        ELSE IF Len(sig) > MaxFiniteDigits
        THEN (IF neg THEN MinusInfinity ELSE PlusInfinity)
        ELSE Finite(IF neg THEN 0 - DigitsValue(sig) ELSE DigitsValue(sig))

\* x || 0: NaN and 0 are falsy.
OrZero(x) == IF x.kind = "NaN" \/ (x.kind = "finite" /\ x.value = 0) THEN Finite(0) ELSE x

\* Math.max(0, x) of a number that is not NaN
MaxWithZero(x) == IF x.value < 0 THEN Finite(0) ELSE x

\* const numValue = Math.max(0, parseInt(value) || 0)
NumValue(text) == MaxWithZero(OrZero(parseInt(text)))

InitField ==
    /\ RunInit /\ dlvExists /\ executionTimeout = DefaultTimeout
    /\ DefaultFlags /\ SinkIdle /\ TriggerIdle
    /\ fn = "field"
    /\ arg = << >>
    /\ ret = [executionTimeout |-> Finite(DefaultTimeout), edits |-> 0]

\* The user types the piece at the end of the text of the field, or clears
\* the field: onChange stores the value of the new text in
\* settings.executionTimeout.  arg is the text of the field.
EditTimeout(text) ==
    /\ fn = "field"
    /\ ret.edits < MaxTextLen
    /\ arg' = text
    /\ ret' = [executionTimeout |-> NumValue(text), edits |-> ret.edits + 1]
    /\ UNCHANGED << fn, runVars, settingsVars, sinkVars, triggerVars >>

NextField ==
    \/ \E piece \in TextPieces : EditTimeout(arg \o piece)
    \/ EditTimeout(<< >>)

SpecField == InitField /\ [][NextField]_vars

\* C39: after any edits of the field settings.executionTimeout is an
\* integer that is not negative, and 0 when the text cannot be parsed.
C39_TimeoutIsNatural ==
    fn = "field" =>
        /\ ret.executionTimeout.kind = "finite"
        /\ ret.executionTimeout.value >= 0
        /\ parseInt(arg) = NaN => ret.executionTimeout.value = 0

====
